---- MODULE Spec2Model ----
(***************************************************************************)
(* A model of the Facebook Marketplace scraper: src/main.py (credential    *)
(* check at import, fetch_marketplace_listings, parse_listing_with_soup,   *)
(* the cleanup helpers, get_descriptions, listings_to_json) and            *)
(* src/block.py (blocking_intercept).                                      *)
(*                                                                         *)
(* A Python str is a sequence of one-character strings.  The character     *)
(* U+00B2 (superscript two) is written "sup2": str.isdigit is true of it   *)
(* and int() does not accept it.  Python's None is the value None below;   *)
(* a value that may be None, a str or an int is tagged (StrVal, IntVal).   *)
(* The browser calls (launch, goto, fill, click, inner_text) are taken to  *)
(* succeed: the source handles none of their failures.                     *)
(***************************************************************************)
EXTENDS Integers, Sequences, FiniteSets, TLC

VARIABLES
    pc,               \* position of the process
    error,            \* the exception that ended the process, or "none"
    email,            \* os.getenv("FB_EMAIL")
    password,         \* os.getenv("FB_PASSWORD")
    net,              \* the browser/network steps taken so far, in order
    fragments,        \* inner_html of the nodes of listings (LISTINGS_SELECTOR)
    num_listings,     \* fetch_marketplace_listings: num_listings
    i,                \* fetch_marketplace_listings: loop index
    parsed,           \* fetch_marketplace_listings: parsed
    visited,          \* indices of the fragments the parse loop has handled
    warned,           \* indices of the fragments logged by logger.warning
    scraped_listings, \* __main__: scraped_listings
    fetched,          \* the value fetch_marketplace_listings returned (history)
    detail,           \* the site: description text shown at each listing URL
    page_url,         \* get_descriptions: the URL the page is at
    d,                \* get_descriptions: loop index
    writes,           \* get_descriptions: assignments to each description
    output,           \* the text written to mtb_bikes.json
    arg,              \* argument of a helper called on its own
    ret,              \* its result
    route             \* the calls blocking_intercept made on its route

vars == << pc, error, email, password, net, fragments, num_listings, i, parsed,
           visited, warned, scraped_listings, fetched, detail, page_url, d,
           writes, output, arg, ret, route >>

-----------------------------------------------------------------------------
(* Values *)

None == << "None" >>
StrVal(s) == << "str", s >>
IntVal(n) == << "int", n >>

\* Python truthiness of None, a str or an int.
Truthy(v) ==
    IF v = None THEN FALSE
    ELSE IF v[1] = "str" THEN v[2] # << >>
    ELSE v[2] # 0

\* str.isdecimal: the characters int() reads as base-10 digits.
DecimalDigits == { "0", "1", "2", "3", "4", "5", "6", "7", "8", "9" }

\* Characters of which str.isdigit is true and str.isdecimal is false.
OtherDigits == { "sup2" }

\* str.isspace
Whitespace == { " ", "\n" }

DigitValue(c) ==
    CASE c = "0" -> 0 [] c = "1" -> 1 [] c = "2" -> 2 [] c = "3" -> 3
      [] c = "4" -> 4 [] c = "5" -> 5 [] c = "6" -> 6 [] c = "7" -> 7
      [] c = "8" -> 8 [] c = "9" -> 9

\* str.strip()
RECURSIVE LStrip(_)
LStrip(s) ==
    IF s # << >> /\ Head(s) \in Whitespace THEN LStrip(Tail(s)) ELSE s

RECURSIVE RStrip(_)
RStrip(s) ==
    IF s # << >> /\ s[Len(s)] \in Whitespace
    THEN RStrip(SubSeq(s, 1, Len(s) - 1))
    ELSE s

strip(s) == RStrip(LStrip(s))

\* The index of the first c in s, or 0.
RECURSIVE FindFrom(_, _, _)
FindFrom(s, c, k) ==
    IF k > Len(s) THEN 0
    ELSE IF s[k] = c THEN k
    ELSE FindFrom(s, c, k + 1)

\* The index of the last c in s, or 0.
RECURSIVE FindLast(_, _, _)
FindLast(s, c, k) ==
    IF k = 0 THEN 0
    ELSE IF s[k] = c THEN k
    ELSE FindLast(s, c, k - 1)

\* needle in haystack (Python's substring test, case-sensitive).
Contains(haystack, needle) ==
    \E k \in 0 .. (Len(haystack) - Len(needle)) :
        SubSeq(haystack, k + 1, k + Len(needle)) = needle

-----------------------------------------------------------------------------
(* Field cleanup utilities *)

ORIGIN ==
    << "h", "t", "t", "p", "s", ":", "/", "/", "w", "w", "w", ".",
       "f", "a", "c", "e", "b", "o", "o", "k", ".", "c", "o", "m" >>

\* url.split('?', 1)[0]
SplitFirst(url) ==
    LET k == FindFrom(url, "?", 1)
    IN  IF k = 0 THEN url ELSE SubSeq(url, 1, k - 1)

\* A slip: the cut is made at the last '?' (rsplit).
clean_listing_url_rsplit(url) ==
    LET k == FindLast(url, "?", Len(url))
    IN  ORIGIN \o (IF k = 0 THEN url ELSE SubSeq(url, 1, k - 1))

clean_listing_url(url) == ORIGIN \o SplitFirst(url)

\* filter(str.isdigit, price)
IsDigit(c) == c \in DecimalDigits \cup OtherDigits

\* int(s) of a str whose characters all satisfy str.isdigit: the value, or
\* ValueError when s is empty or holds a digit int() does not read.
RECURSIVE DecimalValue(_)
DecimalValue(s) ==
    IF s = << >> THEN 0
    ELSE 10 * DecimalValue(SubSeq(s, 1, Len(s) - 1)) + DigitValue(s[Len(s)])

int(s) ==
    IF s = << >> \/ \E k \in 1 .. Len(s) : s[k] \notin DecimalDigits
    THEN [kind |-> "ValueError"]
    ELSE [kind |-> "int", val |-> DecimalValue(s)]

convert_price_to_int(price) == int(SelectSeq(price, IsDigit))

-----------------------------------------------------------------------------
(* Listing extraction *)

\* The HTML of one listing, as html.parser reads it: its elements in document
\* order, each with its tag, its classes, its src and href attributes (None
\* when the attribute is absent) and its text.
Element(tag, classes, src, href, text) ==
    [tag |-> tag, classes |-> classes, src |-> src, href |-> href, text |-> text]

IMAGE_SELECTOR ==
    [tag |-> "img",
     classes |-> { "xt7dq6l", "xl1xv1r", "x6ikm8r", "x10wlt62", "xh8yej3" }]
TITLE_SELECTOR ==
    [tag |-> "span",
     classes |-> { "x1lliihq", "x6ikm8r", "x10wlt62", "x1n2onr6" }]
PRICE_SELECTOR == [tag |-> "span", classes |-> { "x193iq5w" }]
URL_SELECTOR == [tag |-> "a", classes |-> { "x1i10hfl" }]
LOCATION_SELECTOR ==
    [tag |-> "span",
     classes |-> { "x1lliihq", "x6ikm8r", "x10wlt62", "x1n2onr6", "xlyipyv",
                   "xuxw1ft" }]

\* A CSS selector tag.c1.c2...: the tag, and every class among the element's.
Matches(el, selector) ==
    el.tag = selector.tag /\ selector.classes \subseteq el.classes

\* soup.select_one: << the first matching element >>, or << >> for None.
select_one(html, selector) ==
    LET hits == SelectSeq(html, LAMBDA el : Matches(el, selector))
    IN  IF hits = << >> THEN << >> ELSE << Head(hits) >>

Listing(image_url, title, price, post_url, location) ==
    [image_url |-> image_url, title |-> title, price |-> price,
     post_url |-> post_url, location |-> location, description |-> None]

\* locator.text.strip() if locator else None
TextOf(locator) ==
    IF locator # << >> THEN StrVal(strip(locator[1].text)) ELSE None

\* The result of parse_listing_with_soup: a Listing, ParseError (line 331),
\* or the ValueError int() raises inside convert_price_to_int (line 315),
\* which leaves the function before the later lookups run.  html.parser
\* gives src and href as one str, never a list, so the isinstance(..., list)
\* branches of lines 303-306 and 320-322 are not taken.
parse_listing_with_soup(html_content) ==
    LET image_locator == select_one(html_content, IMAGE_SELECTOR)
        image == IF image_locator # << >> THEN image_locator[1].src ELSE None
        title == TextOf(select_one(html_content, TITLE_SELECTOR))
        price_text == TextOf(select_one(html_content, PRICE_SELECTOR))
        converted ==
            IF Truthy(price_text) THEN convert_price_to_int(price_text[2])
            ELSE [kind |-> "skipped"]
        price ==
            IF converted.kind = "int" THEN IntVal(converted.val) ELSE None
        link_locator == select_one(html_content, URL_SELECTOR)
        href == IF link_locator # << >> THEN link_locator[1].href ELSE None
        link ==
            IF Truthy(href) THEN StrVal(clean_listing_url(href[2])) ELSE None
        location == TextOf(select_one(html_content, LOCATION_SELECTOR))
    IN  IF converted.kind = "ValueError" THEN [kind |-> "ValueError"]
        ELSE IF ~ (Truthy(image) /\ Truthy(title) /\ Truthy(price)
                   /\ Truthy(link) /\ Truthy(location))
        THEN [kind |-> "ParseError"]
        ELSE [kind |-> "Listing",
              listing |-> Listing(image[2], title[2], price[2], link[2],
                                  location[2])]

-----------------------------------------------------------------------------
(* The pages the browser is shown *)

MaxFragments == 3

ImgEl(src) == Element("img", IMAGE_SELECTOR.classes, src, None, << >>)
TitleEl(text) == Element("span", TITLE_SELECTOR.classes, None, None, text)
PriceEl(text) ==
    Element("span", PRICE_SELECTOR.classes \cup { "xeuugli" }, None, None, text)
LinkEl(href) == Element("a", URL_SELECTOR.classes, None, href, << >>)
LocationEl(text) ==
    Element("span", LOCATION_SELECTOR.classes, None, None, text)

BaseImg == << ImgEl(StrVal(<< "i" >>)) >>
BaseTitle == << TitleEl(<< " ", "t", "\n" >>) >>
BasePrice == << PriceEl(<< "$", "5" >>) >>
BaseLink == << LinkEl(StrVal(<< "/", "a" >>)) >>
BaseLocation == << LocationEl(<< "l" >>) >>

\* What each lookup may meet: no element, an element without the attribute
\* or with empty or blank text, and well-formed ones.
ImgSlots == { << >>, << ImgEl(None) >>, << ImgEl(StrVal(<< >>)) >> } \cup { BaseImg }
TitleSlots == { << >>, << TitleEl(<< " " >>) >> } \cup { BaseTitle }
PriceSlots ==
    { << >>, << PriceEl(<< " " >>) >>, << PriceEl(<< "$", "0" >>) >>,
      << PriceEl(<< "F" >>) >>, << PriceEl(<< "5", "/", "sup2" >>) >>,
      << PriceEl(<< "1", ",", "0" >>) >> } \cup { BasePrice }
LinkSlots ==
    { << >>, << LinkEl(StrVal(<< >>)) >>,
      << LinkEl(StrVal(<< "/", "b", "?", "c" >>)) >>,
      << LinkEl(StrVal(<< "?", "c" >>)) >> } \cup { BaseLink }
LocationSlots == { << >> } \cup { BaseLocation }

\* Listing cards: the well-formed card with at most one part changed, and
\* two cards with two parts changed.
Fragments ==
    { im \o BaseTitle \o BasePrice \o BaseLink \o BaseLocation : im \in ImgSlots }
    \cup { BaseImg \o ti \o BasePrice \o BaseLink \o BaseLocation : ti \in TitleSlots }
    \cup { BaseImg \o BaseTitle \o pr \o BaseLink \o BaseLocation : pr \in PriceSlots }
    \cup { BaseImg \o BaseTitle \o BasePrice \o li \o BaseLocation : li \in LinkSlots }
    \cup { BaseImg \o BaseTitle \o BasePrice \o BaseLink \o lo : lo \in LocationSlots }
    \cup { BaseTitle \o << PriceEl(<< "F" >>) >> \o BaseLink \o BaseLocation,
           BaseImg \o BaseTitle \o << PriceEl(<< "$", "0" >>) >>
               \o << LinkEl(StrVal(<< "?", "c" >>)) >> \o BaseLocation }

\* Sequences over S of length at most n.
SeqUpTo(S, n) == UNION { [1 .. k -> S] : k \in 0 .. n }

\* Descriptions a detail page may show (free text, the empty text included).
Descriptions == { << >>, << "x" >>, << "y" >> }

-----------------------------------------------------------------------------
(* The process: import of main.py, then its __main__ block *)

\* os.getenv of a variable: unset, set to the empty string, or set.
EnvValues == { None, StrVal(<< >>), StrVal(<< "e" >>) }

\* __main__: max_listings=15
max_listings == 15

\* A slip: only unset variables are refused (is None), not empty ones.
CredentialsMissing_unset(e, p) == e = None \/ p = None

\* not email or not password
CredentialsMissing(e, p) == ~ Truthy(e) \/ ~ Truthy(p)

ProcessInit ==
    /\ pc = "import"
    /\ error = "none"
    /\ email \in EnvValues
    /\ password \in EnvValues
    /\ net = << >>
    /\ fragments = << >>
    /\ num_listings = 0
    /\ i = 0
    /\ parsed = << >>
    /\ visited = { }
    /\ warned = { }
    /\ scraped_listings = << >>
    /\ fetched = << >>
    /\ detail = << >>
    /\ page_url = << >>
    /\ d = 0
    /\ writes = << >>
    /\ output = << >>

Init ==
    /\ ProcessInit
    /\ arg = << >>
    /\ ret = << >>
    /\ route = << >>

\* main.py lines 29-38: the credential check, run when the module is loaded.
Startup ==
    /\ pc = "import"
    /\ IF CredentialsMissing(email, password)
       THEN pc' = "crashed" /\ error' = "CredentialsError"
       ELSE pc' = "main" /\ error' = error
    /\ UNCHANGED << arg, ret, route, email, password, net, fragments, num_listings, i, parsed,
                    visited, warned, scraped_listings, fetched, detail,
                    page_url, d, writes, output >>

\* open_browser, called by fetch_marketplace_listings.
FetchOpenBrowser ==
    /\ pc = "main"
    /\ pc' = "fetch_login"
    /\ net' = Append(net, "launch")
    /\ UNCHANGED << arg, ret, route, error, email, password, fragments, num_listings, i, parsed,
                    visited, warned, scraped_listings, fetched, detail,
                    page_url, d, writes, output >>

\* login_to_facebook, called by fetch_marketplace_listings.
FetchLogin ==
    /\ pc = "fetch_login"
    /\ pc' = "fetch_goto"
    /\ net' = Append(net, "login")
    /\ UNCHANGED << arg, ret, route, error, email, password, fragments, num_listings, i, parsed,
                    visited, warned, scraped_listings, fetched, detail,
                    page_url, d, writes, output >>

\* fetch_marketplace_listings lines 246-259: the search page is loaded, its
\* listing nodes are located and counted, parsed starts empty.
FetchGoto ==
    /\ pc = "fetch_goto"
    /\ \E page \in SeqUpTo(Fragments, MaxFragments) :
        /\ fragments' = page
        /\ num_listings' =
               IF max_listings = 0 THEN Len(page)
               ELSE IF Len(page) < max_listings THEN Len(page)
               ELSE max_listings
    /\ pc' = "parse"
    /\ net' = Append(net, "goto_marketplace")
    /\ i' = 0
    /\ parsed' = << >>
    /\ UNCHANGED << arg, ret, route, error, email, password, visited, warned, scraped_listings,
                    fetched, detail, page_url, d, writes, output >>

\* One iteration of the parse loop, lines 260-267.  ParseError is caught and
\* logged; any other exception leaves the loop, the function and the process.
ParseListing ==
    /\ pc = "parse"
    /\ i < num_listings
    /\ LET listing_html == fragments[i + 1]
           result == parse_listing_with_soup(listing_html)
       IN  /\ visited' = visited \cup { i + 1 }
           /\ IF result.kind = "Listing"
              THEN /\ parsed' = Append(parsed, result.listing)
                   /\ i' = i + 1
                   /\ UNCHANGED << pc, error, warned >>
              ELSE IF result.kind = "ParseError"
              THEN /\ warned' = warned \cup { i + 1 }
                   /\ i' = i + 1
                   /\ UNCHANGED << pc, error, parsed >>
              ELSE /\ pc' = "crashed"
                   /\ error' = result.kind
                   /\ UNCHANGED << i, parsed, warned >>
    /\ UNCHANGED << arg, ret, route, email, password, net, fragments, num_listings,
                    scraped_listings, fetched, detail, page_url, d, writes,
                    output >>

\* Lines 268-275 and 352: the loop is over, the browser is closed and parsed
\* is returned to __main__ as scraped_listings.
FetchReturn ==
    /\ pc = "parse"
    /\ i = num_listings
    /\ pc' = "fetched"
    /\ net' = Append(net, "close")
    /\ scraped_listings' = parsed
    /\ fetched' = parsed
    /\ UNCHANGED << arg, ret, route, error, email, password, fragments, num_listings, i, parsed,
                    visited, warned, detail, page_url, d, writes, output >>

\* get_descriptions lines 114-117; the locals of fetch_marketplace_listings
\* are gone.  The site shows one description at each listing URL.
DescOpenBrowser ==
    /\ pc = "fetched"
    /\ pc' = "desc_login"
    /\ net' = Append(net, "launch")
    /\ detail' \in
           [{ scraped_listings[k].post_url : k \in DOMAIN scraped_listings }
               -> Descriptions]
    /\ fragments' = << >>
    /\ num_listings' = 0
    /\ i' = 0
    /\ parsed' = << >>
    /\ visited' = { }
    /\ warned' = { }
    /\ writes' = [k \in DOMAIN scraped_listings |-> 0]
    /\ UNCHANGED << arg, ret, route, error, email, password, scraped_listings, fetched,
                    page_url, d, output >>

\* login_to_facebook, called by get_descriptions.
DescLogin ==
    /\ pc = "desc_login"
    /\ pc' = "desc_goto"
    /\ net' = Append(net, "login")
    /\ d' = 0
    /\ UNCHANGED << arg, ret, route, error, email, password, fragments, num_listings, i, parsed,
                    visited, warned, scraped_listings, fetched, detail,
                    page_url, writes, output >>

\* A slip: every navigation goes to the first listing's page.
NavigationTarget_first(listings, k) == listings[1].post_url

\* Line 126: page.goto(listing.post_url) for the k-th listing.
NavigationTarget(listings, k) == listings[k].post_url

\* Line 134: listing.description = description for the k-th listing.
SetDescription(listings, k, description) ==
    [listings EXCEPT ![k].description = StrVal(description)]

\* get_descriptions lines 122-127: the next listing's page is opened.
DescGoto ==
    /\ pc = "desc_goto"
    /\ d < Len(scraped_listings)
    /\ pc' = "desc_read"
    /\ page_url' = NavigationTarget(scraped_listings, d + 1)
    /\ net' = Append(net, "goto_listing")
    /\ UNCHANGED << arg, ret, route, error, email, password, fragments, num_listings, i, parsed,
                    visited, warned, scraped_listings, fetched, detail, d,
                    writes, output >>

\* get_descriptions lines 130-135: the text of the page is read and stored.
DescWrite ==
    /\ pc = "desc_read"
    /\ LET description == detail[page_url]
       IN  scraped_listings' = SetDescription(scraped_listings, d + 1, description)
    /\ writes' = [writes EXCEPT ![d + 1] = @ + 1]
    /\ d' = d + 1
    /\ pc' = "desc_goto"
    /\ UNCHANGED << arg, ret, route, error, email, password, net, fragments, num_listings, i,
                    parsed, visited, warned, fetched, detail, page_url, output >>

\* get_descriptions lines 137-139: the loop is over, the browser is closed.
DescReturn ==
    /\ pc = "desc_goto"
    /\ d = Len(scraped_listings)
    /\ pc' = "described"
    /\ net' = Append(net, "close")
    /\ UNCHANGED << arg, ret, route, error, email, password, fragments, num_listings, i, parsed,
                    visited, warned, scraped_listings, fetched, detail,
                    page_url, d, writes, output >>

-----------------------------------------------------------------------------
(* Record serialization *)

KEY_image_url == << "i", "m", "a", "g", "e", "_", "u", "r", "l" >>
KEY_title == << "t", "i", "t", "l", "e" >>
KEY_price == << "p", "r", "i", "c", "e" >>
KEY_post_url == << "p", "o", "s", "t", "_", "u", "r", "l" >>
KEY_location == << "l", "o", "c", "a", "t", "i", "o", "n" >>
KEY_description ==
    << "d", "e", "s", "c", "r", "i", "p", "t", "i", "o", "n" >>

\* listing.__dict__: the fields of the dataclass, in the order of lines
\* 52-57, as (key, value) pairs.
ListingDict(listing) ==
    << << KEY_image_url, StrVal(listing.image_url) >>,
       << KEY_title, StrVal(listing.title) >>,
       << KEY_price, IntVal(listing.price) >>,
       << KEY_post_url, StrVal(listing.post_url) >>,
       << KEY_location, StrVal(listing.location) >>,
       << KEY_description, listing.description >> >>

DigitChar(n) ==
    CASE n = 0 -> "0" [] n = 1 -> "1" [] n = 2 -> "2" [] n = 3 -> "3"
      [] n = 4 -> "4" [] n = 5 -> "5" [] n = 6 -> "6" [] n = 7 -> "7"
      [] n = 8 -> "8" [] n = 9 -> "9"

\* The decimal text of a non-negative int.
RECURSIVE IntToChars(_)
IntToChars(n) ==
    IF n < 10 THEN << DigitChar(n) >>
    ELSE IntToChars(n \div 10) \o << DigitChar(n % 10) >>

\* json's string escapes (ensure_ascii): quote, backslash, newline, and
\* \uXXXX for a character outside ASCII.
EscapeChar(c) ==
    CASE c = "\"" -> << "\\", "\"" >>
      [] c = "\\" -> << "\\", "\\" >>
      [] c = "\n" -> << "\\", "n" >>
      [] c = "sup2" -> << "\\", "u", "0", "0", "b", "2" >>
      [] OTHER -> << c >>

RECURSIVE Escape(_)
Escape(s) ==
    IF s = << >> THEN << >> ELSE EscapeChar(Head(s)) \o Escape(Tail(s))

Indent(n) == [k \in 1 .. n |-> " "]

\* sep.join(parts)
RECURSIVE Join(_, _)
Join(parts, sep) ==
    IF parts = << >> THEN << >>
    ELSE IF Len(parts) = 1 THEN parts[1]
    ELSE parts[1] \o sep \o Join(Tail(parts), sep)

DumpString(s) == << "\"" >> \o Escape(s) \o << "\"" >>

DumpValue(v) ==
    IF v = None THEN << "n", "u", "l", "l" >>
    ELSE IF v[1] = "str" THEN DumpString(v[2])
    ELSE IntToChars(v[2])

\* A dict at nesting level 1 under indent=4.
DumpDict(dct) ==
    IF dct = << >> THEN << "{", "}" >>
    ELSE << "{", "\n" >>
         \o Join([k \in DOMAIN dct |->
                     Indent(8) \o DumpString(dct[k][1]) \o << ":", " " >>
                         \o DumpValue(dct[k][2])],
                 << ",", "\n" >>)
         \o << "\n" >> \o Indent(4) \o << "}" >>

\* json.dumps(dicts, indent=4) of a list of dicts of scalars.
json_dumps(dicts) ==
    IF dicts = << >> THEN << "[", "]" >>
    ELSE << "[", "\n" >>
         \o Join([k \in DOMAIN dicts |-> Indent(4) \o DumpDict(dicts[k])],
                 << ",", "\n" >>)
         \o << "\n", "]" >>

\* A slip: the description goes through str(), so None is written "None".
listings_to_json_str(listings) ==
    json_dumps([k \in DOMAIN listings |->
        [ListingDict(listings[k]) EXCEPT ![6] =
            << KEY_description,
               IF listings[k].description = None
               THEN StrVal(<< "N", "o", "n", "e" >>)
               ELSE listings[k].description >>]])

\* Line 346.
listings_to_json(listings) ==
    json_dumps([k \in DOMAIN listings |-> ListingDict(listings[k])])

\* Lines 359-361: the document is written to mtb_bikes.json.
Serialize ==
    /\ pc = "described"
    /\ pc' = "done"
    /\ output' = listings_to_json(scraped_listings)
    /\ UNCHANGED << arg, ret, route, error, email, password, net, fragments, num_listings, i,
                    parsed, visited, warned, scraped_listings, fetched, detail,
                    page_url, d, writes >>

Next ==
    \/ Startup
    \/ FetchOpenBrowser
    \/ FetchLogin
    \/ FetchGoto
    \/ ParseListing
    \/ FetchReturn
    \/ DescOpenBrowser
    \/ DescLogin
    \/ DescGoto
    \/ DescWrite
    \/ DescReturn
    \/ Serialize

Spec == Init /\ [][Next]_vars

-----------------------------------------------------------------------------
(* Resource request filter, src/block.py *)

BLOCK_RESOURCE_TYPES ==
    { "beacon", "csp_report", "font", "image", "imageset",
      "media", "object", "texttrack", "xhr", "eventsource" }

BLOCK_RESOURCE_NAMES ==
    { << "a", "d", "z", "e", "r", "k" >>,
      << "a", "n", "a", "l", "y", "t", "i", "c", "s" >>,
      << "c", "d", "n", ".", "a", "p", "i", ".", "t", "w", "i", "t", "t", "e", "r" >>,
      << "d", "o", "u", "b", "l", "e", "c", "l", "i", "c", "k" >>,
      << "e", "x", "e", "l", "a", "t", "o", "r" >>,
      << "f", "o", "n", "t", "a", "w", "e", "s", "o", "m", "e" >>,
      << "g", "o", "o", "g", "l", "e" >>,
      << "g", "o", "o", "g", "l", "e", "-", "a", "n", "a", "l", "y", "t", "i", "c", "s" >>,
      << "g", "o", "o", "g", "l", "e", "t", "a", "g", "m", "a", "n", "a", "g", "e", "r" >> }

\* str.lower on the letters the requests below use.
Lower(c) == IF c = "G" THEN "g" ELSE IF c = "A" THEN "a" ELSE c

\* A slip: the URL is lowered before the names are looked for.
blocking_intercept_lower(request) ==
    IF request.resource_type \in BLOCK_RESOURCE_TYPES THEN << "abort" >>
    ELSE IF \E key \in BLOCK_RESOURCE_NAMES :
                Contains([k \in DOMAIN request.url |-> Lower(request.url[k])], key)
    THEN << "abort" >>
    ELSE << "continue_" >>

\* blocking_intercept(route), lines 41-45: the calls it makes on the route,
\* read from route.request.
blocking_intercept(request) ==
    IF request.resource_type \in BLOCK_RESOURCE_TYPES THEN << "abort" >>
    ELSE IF \E key \in BLOCK_RESOURCE_NAMES : Contains(request.url, key)
    THEN << "abort" >>
    ELSE << "continue_" >>

\* Playwright's resource types: the blocked ones and some that are not.
ResourceTypes ==
    BLOCK_RESOURCE_TYPES \cup { "document", "script", "stylesheet", "fetch" }

Methods == { "GET", "POST" }

MaxUrlPieces == 2

UrlPieces ==
    { << "g", "o", "o" >>,
      << "g", "l", "e" >>,
      << "g", "o", "o", "g", "l", "e" >>,
      << "G", "o", "o", "g", "l", "e" >>,
      << "-" >>,
      << "a", "n", "a", "l", "y", "t", "i", "c", "s" >>,
      << "A", "n", "a", "l", "y", "t", "i", "c", "s" >>,
      << "a", "d", "z", "e", "r", "k" >>,
      << "c", "d", "n", ".", "a", "p", "i", "." >>,
      << "t", "w", "i", "t", "t", "e", "r" >>,
      << "d", "o", "u", "b", "l", "e", "c", "l", "i", "c", "k" >>,
      << "e", "x", "e", "l", "a", "t", "o", "r" >>,
      << "f", "o", "n", "t", "a", "w", "e", "s", "o", "m", "e" >>,
      << "t", "a", "g", "m", "a", "n", "a", "g", "e", "r" >>,
      << "/" >>,
      << "x" >> }

RECURSIVE Concat(_)
Concat(parts) ==
    IF parts = << >> THEN << >> ELSE Head(parts) \o Concat(Tail(parts))

RequestUrls == { Concat(parts) : parts \in SeqUpTo(UrlPieces, MaxUrlPieces) }

Requests == [resource_type : ResourceTypes, url : RequestUrls, method : Methods]

\* A helper called on its own: no process runs.
Idle ==
    /\ pc = "call"
    /\ error = "none"
    /\ email = None
    /\ password = None
    /\ net = << >>
    /\ fragments = << >>
    /\ num_listings = 0
    /\ i = 0
    /\ parsed = << >>
    /\ visited = { }
    /\ warned = { }
    /\ scraped_listings = << >>
    /\ fetched = << >>
    /\ detail = << >>
    /\ page_url = << >>
    /\ d = 0
    /\ writes = << >>
    /\ output = << >>

InitFilter ==
    /\ Idle
    /\ arg \in Requests
    /\ ret = << >>
    /\ route = << >>

\* The browser hands a request to the handler registered by page.route.
Intercept ==
    /\ pc = "call"
    /\ pc' = "returned"
    /\ route' = route \o blocking_intercept(arg)
    /\ UNCHANGED << arg, ret, error, email, password, net, fragments,
                    num_listings, i, parsed, visited, warned, scraped_listings,
                    fetched, detail, page_url, d, writes, output >>

SpecFilter == InitFilter /\ [][Intercept]_vars

-----------------------------------------------------------------------------
(* The cleanup helpers on their own *)

MaxPriceLen == 3

PriceChars == { "$", ",", ".", "0", "1", "5", "sup2" }

\* Every short price text, and the texts of the docstring and of the spec.
PriceStrings ==
    SeqUpTo(PriceChars, MaxPriceLen)
    \cup { << "$", "C", "A", "1", ",", "0", "0", "0" >>,
           << "1", "2", "3", "4" >>,
           << "1", "2", ".", "5", "0" >>,
           << "$", "C", "A" >>,
           << "F", "r", "e", "e" >> }

InitPrice ==
    /\ Idle
    /\ arg \in PriceStrings
    /\ ret = << >>
    /\ route = << >>

CallConvertPrice ==
    /\ pc = "call"
    /\ pc' = "returned"
    /\ ret' = convert_price_to_int(arg)
    /\ UNCHANGED << arg, route, error, email, password, net, fragments,
                    num_listings, i, parsed, visited, warned, scraped_listings,
                    fetched, detail, page_url, d, writes, output >>

SpecPrice == InitPrice /\ [][CallConvertPrice]_vars

MaxUrlLen == 4

UrlChars == { "/", "m", "?", "=" }

UrlStrings ==
    SeqUpTo(UrlChars, MaxUrlLen)
    \cup { << "/", "m", "a", "r", "k", "e", "t", "p", "l", "a", "c", "e", "/", "i", "t", "e", "m", "/", "1", "2", "3", "?", "r", "e", "f", "=", "a", "b", "c" >>,
           << "/", "m", "a", "r", "k", "e", "t", "p", "l", "a", "c", "e", "/", "i", "t", "e", "m", "/", "1", "2", "3" >> }

InitUrl ==
    /\ Idle
    /\ arg \in UrlStrings
    /\ ret = << >>
    /\ route = << >>

CallCleanUrl ==
    /\ pc = "call"
    /\ pc' = "returned"
    /\ ret' = clean_listing_url(arg)
    /\ UNCHANGED << arg, route, error, email, password, net, fragments,
                    num_listings, i, parsed, visited, warned, scraped_listings,
                    fetched, detail, page_url, d, writes, output >>

SpecUrl == InitUrl /\ [][CallCleanUrl]_vars

-----------------------------------------------------------------------------
(* Serialization on its own, and a reader of its output *)

MaxJsonLen == 2

JsonDescriptions ==
    { None, StrVal(<< "N", "o", "n", "e" >>), StrVal(<< >>),
      StrVal(<< "a", "\"", "\\", "\n", "sup2" >>) }

\* Listings as the two passes leave them: description unset or any text.
JsonListings ==
    { [Listing(<< "i" >>, title, price, ORIGIN \o << "/", "a" >>, << "l" >>)
          EXCEPT !.description = description] :
        title \in { << "t" >>, << "n", "u", "l", "l" >> },
        price \in { 5, 1250 },
        description \in JsonDescriptions }

InitJson ==
    /\ Idle
    /\ arg \in SeqUpTo(JsonListings, MaxJsonLen)
    /\ ret = << >>
    /\ route = << >>

CallListingsToJson ==
    /\ pc = "call"
    /\ pc' = "returned"
    /\ ret' = listings_to_json(arg)
    /\ UNCHANGED << arg, route, error, email, password, net, fragments,
                    num_listings, i, parsed, visited, warned, scraped_listings,
                    fetched, detail, page_url, d, writes, output >>

SpecJson == InitJson /\ [][CallListingsToJson]_vars

\* A generic JSON reader (json.loads) for a list of objects of strings,
\* integers and nulls.  Every step returns [ok, val, pos]: whether the text
\* is well-formed so far, the value read, and the position after it.  An
\* object is read as its (key, value) pairs in document order.
At(text, p) == IF p >= 1 /\ p <= Len(text) THEN text[p] ELSE "EOF"

Failed(p) == [ok |-> FALSE, val |-> << >>, pos |-> p]
Read(v, p) == [ok |-> TRUE, val |-> v, pos |-> p]

RECURSIVE SkipWs(_, _)
SkipWs(text, p) ==
    IF At(text, p) \in { " ", "\n" } THEN SkipWs(text, p + 1) ELSE p

\* The characters of a string, from after its opening quote.
RECURSIVE ReadChars(_, _, _)
ReadChars(text, p, acc) ==
    LET c == At(text, p)
        e == At(text, p + 1)
    IN  IF c = "EOF" \/ c = "\n" THEN Failed(p)
        ELSE IF c = "\"" THEN Read(acc, p + 1)
        ELSE IF c # "\\" THEN ReadChars(text, p + 1, Append(acc, c))
        ELSE IF e = "\"" \/ e = "\\" THEN ReadChars(text, p + 2, Append(acc, e))
        ELSE IF e = "n" THEN ReadChars(text, p + 2, Append(acc, "\n"))
        ELSE IF /\ e = "u"
                /\ p + 5 <= Len(text)
                /\ SubSeq(text, p + 2, p + 5) = << "0", "0", "b", "2" >>
        THEN ReadChars(text, p + 6, Append(acc, "sup2"))
        ELSE Failed(p)

ReadString(text, p) ==
    IF At(text, p) = "\"" THEN ReadChars(text, p + 1, << >>) ELSE Failed(p)

RECURSIVE ReadDigits(_, _, _)
ReadDigits(text, p, acc) ==
    IF At(text, p) \in DecimalDigits
    THEN ReadDigits(text, p + 1, Append(acc, At(text, p)))
    ELSE Read(acc, p)

ReadScalar(text, p) ==
    LET c == At(text, p)
    IN  IF c = "\""
        THEN LET r == ReadString(text, p)
             IN  IF r.ok THEN Read(StrVal(r.val), r.pos) ELSE r
        ELSE IF c \in DecimalDigits
        THEN LET r == ReadDigits(text, p, << >>)
             IN  Read(IntVal(DecimalValue(r.val)), r.pos)
        ELSE IF /\ p + 3 <= Len(text)
                /\ SubSeq(text, p, p + 3) = << "n", "u", "l", "l" >>
        THEN Read(None, p + 4)
        ELSE Failed(p)

\* The members of an object, from its first key to its closing brace.
RECURSIVE ReadMembers(_, _, _)
ReadMembers(text, p, acc) ==
    LET key == ReadString(text, p)
        colon == SkipWs(text, key.pos)
        value == ReadScalar(text, SkipWs(text, colon + 1))
        after == SkipWs(text, value.pos)
        pairs == Append(acc, << key.val, value.val >>)
    IN  IF ~ key.ok \/ At(text, colon) # ":" THEN Failed(p)
        ELSE IF ~ value.ok THEN Failed(p)
        ELSE IF At(text, after) = "}" THEN Read(pairs, after + 1)
        ELSE IF At(text, after) = ","
        THEN ReadMembers(text, SkipWs(text, after + 1), pairs)
        ELSE Failed(after)

ReadObject(text, p) ==
    LET first == SkipWs(text, p + 1)
    IN  IF At(text, p) # "{" THEN Failed(p)
        ELSE IF At(text, first) = "}" THEN Read(<< >>, first + 1)
        ELSE ReadMembers(text, first, << >>)

\* The elements of a list, from its first element to its closing bracket.
RECURSIVE ReadElements(_, _, _)
ReadElements(text, p, acc) ==
    LET element == ReadObject(text, p)
        after == SkipWs(text, element.pos)
        elements == Append(acc, element.val)
    IN  IF ~ element.ok THEN Failed(p)
        ELSE IF At(text, after) = "]" THEN Read(elements, after + 1)
        ELSE IF At(text, after) = ","
        THEN ReadElements(text, SkipWs(text, after + 1), elements)
        ELSE Failed(after)

\* json.loads(text): [ok, val], ok only when the whole text is one document.
json_loads(text) ==
    LET start == SkipWs(text, 1)
        first == SkipWs(text, start + 1)
        r == IF At(text, start) # "[" THEN Failed(start)
             ELSE IF At(text, first) = "]" THEN Read(<< >>, first + 1)
             ELSE ReadElements(text, first, << >>)
    IN  IF r.ok /\ SkipWs(text, r.pos) = Len(text) + 1
        THEN [ok |-> TRUE, val |-> r.val]
        ELSE [ok |-> FALSE, val |-> << >>]

-----------------------------------------------------------------------------
(* Extraction on its own *)

\* Every card the parts above can make up.
AllFragments ==
    { im \o ti \o pr \o li \o lo :
        im \in ImgSlots, ti \in TitleSlots, pr \in PriceSlots,
        li \in LinkSlots, lo \in LocationSlots }

InitParse ==
    /\ Idle
    /\ arg \in AllFragments
    /\ ret = << >>
    /\ route = << >>

CallParseListing ==
    /\ pc = "call"
    /\ pc' = "returned"
    /\ ret' = parse_listing_with_soup(arg)
    /\ UNCHANGED << arg, route, error, email, password, net, fragments,
                    num_listings, i, parsed, visited, warned, scraped_listings,
                    fetched, detail, page_url, d, writes, output >>

SpecParse == InitParse /\ [][CallParseListing]_vars

-----------------------------------------------------------------------------
(* The claims *)

\* The listings of the fragments whose extraction gives a Listing, in order.
RECURSIVE Successes(_)
Successes(htmls) ==
    IF htmls = << >> THEN << >>
    ELSE LET result == parse_listing_with_soup(Head(htmls))
         IN  (IF result.kind = "Listing" THEN << result.listing >> ELSE << >>)
             \o Successes(Tail(htmls))

\* C1: a fragment whose extraction fails never aborts the batch: nothing but
\* the credential check ends the process, and when the parse loop is over it
\* has handled every fragment and returns exactly the listings of the
\* fragments whose extraction succeeded, in their original order.
C1_BatchNeverAborted ==
    /\ pc = "crashed" => error = "CredentialsError"
    /\ pc = "fetched" =>
        /\ visited = 1 .. Len(fragments)
        /\ fetched = Successes(fragments)

\* The text of the price element of a card, stripped.
PriceText(html) == TextOf(select_one(html, PRICE_SELECTOR))

\* The price element is there and its text is not blank and has no digit.
DigitFreePrice(html) ==
    /\ Truthy(PriceText(html))
    /\ \A k \in DOMAIN PriceText(html)[2] : ~ IsDigit(PriceText(html)[2][k])

\* C2: a fragment whose price text has no digit character fails as every
\* other extraction failure does: the parse loop catches it as ParseError,
\* logs it, and goes on; no other kind of error leaves the loop.
C2_NoDigitPriceIsParseError ==
    \A k \in visited :
        DigitFreePrice(fragments[k]) => k \in warned

\* One of the five lookups finds no element, or what it extracts is empty.
Deficient(html) ==
    LET image == select_one(html, IMAGE_SELECTOR)
        link == select_one(html, URL_SELECTOR)
    IN  \/ image = << >>
        \/ ~ Truthy(image[1].src)
        \/ link = << >>
        \/ ~ Truthy(link[1].href)
        \/ ~ Truthy(TextOf(select_one(html, TITLE_SELECTOR)))
        \/ ~ Truthy(PriceText(html))
        \/ ~ Truthy(TextOf(select_one(html, LOCATION_SELECTOR)))

FullyPopulated(listing) ==
    /\ listing.image_url # << >>
    /\ listing.title # << >>
    /\ listing.price \in Nat
    /\ listing.post_url # << >>
    /\ listing.location # << >>

\* C3: every Listing the parse loop holds or returns has its five required
\* fields, none empty; and a fragment with a lookup that finds nothing or an
\* empty value gives no Listing and ParseError, which the loop catches.
C3_ListingValidOrParseError ==
    /\ \A k \in DOMAIN parsed : FullyPopulated(parsed[k])
    /\ \A k \in DOMAIN fetched : FullyPopulated(fetched[k])
    /\ \A k \in visited :
           Deficient(fragments[k]) => k \in warned

\* The decimal digits of a text, in order.
DecimalsOf(text) == SelectSeq(text, LAMBDA c : c \in DecimalDigits)

\* All five lookups find an element, the image source, the link target and
\* the trimmed title and location are not empty, and the price text has a
\* decimal digit (and no other character of which str.isdigit is true).
WellFormed(html) ==
    /\ ~ Deficient(html)
    /\ DecimalsOf(PriceText(html)[2]) # << >>
    /\ \A k \in DOMAIN PriceText(html)[2] : PriceText(html)[2][k] \notin OtherDigits

\* The prefix of a text before its first '?', the whole text without one.
BeforeQuery(text) ==
    IF \E k \in DOMAIN text : text[k] = "?"
    THEN SubSeq(text, 1,
                (CHOOSE k \in DOMAIN text :
                    text[k] = "?" /\ \A j \in 1 .. k - 1 : text[j] # "?") - 1)
    ELSE text

\* C4: a well-formed fragment gives a Listing: its price the integer its
\* price digits spell (zero included), its post_url the origin followed by
\* the link target cut at its first '?', its title and location the trimmed
\* texts, its image_url the image source, its description absent.
C4_WellFormedGivesListing ==
    pc = "returned" /\ WellFormed(arg) =>
        /\ ret.kind = "Listing"
        /\ ret.listing.price = DecimalValue(DecimalsOf(PriceText(arg)[2]))
        /\ ret.listing.post_url
               = ORIGIN \o BeforeQuery(select_one(arg, URL_SELECTOR)[1].href[2])
        /\ ret.listing.title = TextOf(select_one(arg, TITLE_SELECTOR))[2]
        /\ ret.listing.location = TextOf(select_one(arg, LOCATION_SELECTOR))[2]
        /\ ret.listing.image_url = select_one(arg, IMAGE_SELECTOR)[1].src[2]
        /\ ret.listing.description = None

\* name occurs in text, between some two positions of it.
Occurs(name, text) ==
    \E a \in 0 .. Len(text) : \E b \in a .. Len(text) :
        SubSeq(text, a + 1, b) = name

\* C5: the handler makes exactly one call on the route, abort or continue_;
\* it is abort exactly when the resource type is in BLOCK_RESOURCE_TYPES or
\* the URL holds an entry of BLOCK_RESOURCE_NAMES as a case-sensitive
\* substring, whatever else the request carries.
C5_BlockDecision ==
    pc = "returned" =>
        /\ Len(route) = 1
        /\ route[1] \in { "abort", "continue_" }
        /\ route[1] = "abort" <=>
               \/ arg.resource_type \in BLOCK_RESOURCE_TYPES
               \/ \E name \in BLOCK_RESOURCE_NAMES : Occurs(name, arg.url)

\* A request of a type that is not blocked, whose URL holds a blocked name
\* only in another case, has been let through.
C5_Witness ==
    /\ pc = "returned"
    /\ arg.resource_type = "document"
    /\ arg.url = << "G", "o", "o", "g", "l", "e" >>
    /\ route = << "continue_" >>

\* FB_EMAIL or FB_PASSWORD is unset or empty.
SecretAbsent ==
    \/ email = None
    \/ email = StrVal(<< >>)
    \/ password = None
    \/ password = StrVal(<< >>)

\* C6: with either secret unset or empty the process never gets past the
\* credential check: it takes no browser or network step, and once the check
\* has run it has ended with CredentialsError.
C6_NoNetworkWithoutCredentials ==
    SecretAbsent =>
        /\ net = << >>
        /\ pc \in { "import", "crashed" }
        /\ pc = "crashed" => error = "CredentialsError"

\* The account is set, the secret is the empty string, the process ended.
C6_Witness ==
    /\ email = StrVal(<< "e" >>)
    /\ password = StrVal(<< >>)
    /\ pc = "crashed"

\* The positions of the process inside and after get_descriptions.
Describing == pc \in { "desc_login", "desc_goto", "desc_read", "described", "done" }

\* C7: in get_descriptions the sequence keeps its length and order and every
\* listing its five extracted fields; the listings before the loop index have
\* had their description written once, with the text at their own post_url,
\* the others not yet; on return every listing has been written.
C7_DescriptionsOnly ==
    Describing =>
        /\ Len(scraped_listings) = Len(fetched)
        /\ pc \in { "described", "done" } => d = Len(scraped_listings)
        /\ \A k \in DOMAIN scraped_listings :
            /\ scraped_listings[k].image_url = fetched[k].image_url
            /\ scraped_listings[k].title = fetched[k].title
            /\ scraped_listings[k].price = fetched[k].price
            /\ scraped_listings[k].post_url = fetched[k].post_url
            /\ scraped_listings[k].location = fetched[k].location
            /\ IF k <= d
               THEN /\ writes[k] = 1
                    /\ scraped_listings[k].description
                           = StrVal(detail[fetched[k].post_url])
               ELSE /\ writes[k] = 0
                    /\ scraped_listings[k].description = None

\* get_descriptions has returned after writing two listings whose pages
\* show different texts.
C7_Witness ==
    /\ pc = "described"
    /\ Len(scraped_listings) >= 2
    /\ scraped_listings[1].description # scraped_listings[2].description
    /\ scraped_listings[1].description # None
    /\ scraped_listings[2].description # None

\* C8: the document reads back as one mapping per listing, in order, each
\* with the six keys in the order of the dataclass and the listing's own
\* values; an unset description reads back as null, not as a string.
C8_JsonRoundTrip ==
    pc = "returned" =>
        LET back == json_loads(ret)
        IN  /\ back.ok
            /\ Len(back.val) = Len(arg)
            /\ \A k \in DOMAIN arg :
                   back.val[k] =
                       << << KEY_image_url, StrVal(arg[k].image_url) >>,
                          << KEY_title, StrVal(arg[k].title) >>,
                          << KEY_price, IntVal(arg[k].price) >>,
                          << KEY_post_url, StrVal(arg[k].post_url) >>,
                          << KEY_location, StrVal(arg[k].location) >>,
                          << KEY_description, arg[k].description >> >>

\* Two listings have been serialized, the first with its description unset,
\* the second described by the text "None".
C8_Witness ==
    /\ pc = "returned"
    /\ Len(arg) = 2
    /\ arg[1].description = None
    /\ arg[2].description = StrVal(<< "N", "o", "n", "e" >>)
    /\ json_loads(ret).ok

\* C9: convert_price_to_int returns the integer spelled by the decimal
\* digits of the text, in order, and fails with a conversion error (never
\* zero) when the text has no decimal digit.
C9_DigitsOnly ==
    pc = "returned" =>
        IF DecimalsOf(arg) = << >>
        THEN ret = [kind |-> "ValueError"]
        ELSE ret = [kind |-> "int", val |-> DecimalValue(DecimalsOf(arg))]

\* C10: clean_listing_url always returns a text: the origin followed by a
\* prefix of the input that holds no '?' and is either the whole input or is
\* followed in it by '?'.
C10_UrlCutAtFirstQuery ==
    pc = "returned" =>
        \E k \in 0 .. Len(arg) :
            /\ ret = ORIGIN \o SubSeq(arg, 1, k)
            /\ \A j \in 1 .. k : arg[j] # "?"
            /\ k = Len(arg) \/ arg[k + 1] = "?"

\* A URL with two '?' has been cleaned.
C10_Witness ==
    /\ pc = "returned"
    /\ arg = << "/", "?", "m", "?" >>
    /\ ret = ORIGIN \o << "/" >>

====
